---- MODULE Spec2Model ----
(***************************************************************************)
(* Model of the TARDIS drone lifecycle (tardis/resources/drone.py), the    *)
(* Slurm site adapter with its cached squeue status                         *)
(* (tardis/adapters/sites/slurm.py) and the Exoscale adapter                *)
(* (tardis/adapter/exoscale.py).                                            *)
(*                                                                          *)
(* Specifications:                                                          *)
(*   Spec         the lifecycle loops of the drones of one Slurm site,      *)
(*                sharing the site's status cache;                          *)
(*   SpecObserved the same, with an observer registered on every drone;     *)
(*   SpecAdapter  the adapters' operations called directly, each inside     *)
(*                the adapter's handle_exceptions boundary;                 *)
(*   SpecDrone    the Drone's state setter and observer list;               *)
(*   SpecStatus   SlurmAdapter.resource_status on squeue batches of any     *)
(*                content.                                                  *)
(***************************************************************************)
EXTENDS Integers, Sequences, FiniteSets, TLC

\* ------------------------------------------------------------------ bounds
MaxTime == 2
MaxAge == 2
RetryBudget == 2
MaxObservers == 1
MaxCalls == 3

Drones == {1, 2}
Observers == {"obs"}
Times == 0..MaxTime
None == "None"

\* ------------------------------------------------------- canonical statuses
ResourceStatus == {"Booting", "Running", "Stopped", "Deleted", "Error"}

DroneStates ==
  {"Requested", "Booting", "Running", "Stopped", "Terminating", "Deleted", "Error"}

TerminalStates == {"Deleted", "Error"}

\* Native squeue job states the modelled scheduler moves a job through.
NativeStates == {"PENDING", "RUNNING", "SUSPENDED", "COMPLETED", "CANCELLED", "FAILED"}

VARIABLES
  state,        \* Drone._state: the state the object held is of
  stateObj,     \* Drone._state: the identity of the object held
  observers,    \* Drone._observers
  notified,     \* number of observer.notify(drone) calls, per drone and observer
  pc,           \* position of each drone's run() coroutine
  ret,          \* outcome of the call the coroutine is suspended on
  attrs,        \* the drone's resource_attributes
  attempts,     \* attempt record: failed attempts of the current state's operation
  lastError,    \* attempt record: last error
  termReq,      \* terminate requested by the planning loop
  now,          \* datetime.now()
  jobs,         \* the scheduler's job table: job id string -> native state
  nextJobId,    \* the job id the scheduler hands out next
  cacheData,    \* AsyncCacheMap: the last batch
  last_update,  \* AsyncCacheMap.last_update
  hasSnapshot,  \* AsyncCacheMap: a batch has been stored
  cacheStale,   \* AsyncCacheMap: the batch is flagged stale (last refresh failed)
  outstanding,  \* squeue runs in flight
  waiters,      \* drones awaiting the refresh in flight
  deployOk,     \* successful returns of deploy_resource, per drone
  actedTerminal, \* a provider action was issued for a drone in a terminal state
  call,         \* SpecAdapter: the last direct adapter call and its outcome
  vms,          \* SpecAdapter: the Exoscale machines
  xattrs,       \* SpecAdapter: resource_attributes of the Exoscale resources
  nterm,        \* SpecAdapter: terminate_resource calls made, per adapter and resource
  ncalls        \* SpecAdapter: direct calls made

vars ==
  << state, stateObj, observers, notified, pc, ret, attrs, attempts, lastError, termReq, now,
     jobs, nextJobId, cacheData, last_update, hasSnapshot, cacheStale, outstanding,
     waiters, deployOk, actedTerminal, call, vms, xattrs, nterm, ncalls >>

cacheVars ==
  << cacheData, last_update, hasSnapshot, cacheStale, outstanding, waiters >>
provVars == << jobs, nextJobId >>
adapterVars == << call, vms, xattrs, nterm, ncalls >>

\* ------------------------------------------------------- str() and int()
\* Job ids travel as decimal strings (sbatch's stdout, squeue's JobId column) and
\* are kept as ints in resource_attributes; a string is a sequence of digits.
RECURSIVE DigitsToInt(_)
DigitsToInt(s) ==
  IF s = << >> THEN 0 ELSE 10 * DigitsToInt(SubSeq(s, 1, Len(s) - 1)) + s[Len(s)]

RECURSIVE IntToDigits(_)
IntToDigits(n) ==
  IF n < 10 THEN << n >> ELSE Append(IntToDigits(n \div 10), n % 10)

\* A value handed to int(): a string of digits or an int.
PyStr(digits) == [str |-> digits]
PyInt(n) == [int |-> n]

\* int(x): of a string its value, of an int itself.
ToInt(x) == IF "str" \in DOMAIN x THEN DigitsToInt(x.str) ELSE x.int

\* ------------------------------------------------- Slurm status translation
\* The job state codes the translator names.
KnownStates ==
  {"CANCELLED", "COMPLETED", "COMPLETING", "CONFIGURING", "PENDING", "PREEMPTED",
   "RESV_DEL_HOLD", "REQUEUE_FED", "REQUEUE_HOLD", "REQUEUED", "RESIZING", "RUNNING",
   "SIGNALING", "SPECIAL_EXIT", "STAGE_OUT", "STOPPED", "SUSPENDED"}

\* Strings squeue can print in the State column: the codes the translator names,
\* codes it does not name, and strings that are no code at all.
StateStrings == KnownStates \cup {"FAILED", "TIMEOUT", "NODE_FAIL", "running", ""}

\* The translator looked up without a default.
StateTranslator_nodefault(x) ==
  CASE x \in {"CANCELLED", "COMPLETED", "PREEMPTED"} -> "Deleted"
    [] x \in {"COMPLETING", "RESIZING", "RUNNING", "SIGNALING", "STAGE_OUT"} -> "Running"
    [] x \in {"CONFIGURING", "PENDING", "REQUEUE_FED", "REQUEUE_HOLD", "REQUEUED",
              "SPECIAL_EXIT"} -> "Booting"
    [] x \in {"RESV_DEL_HOLD", "STOPPED", "SUSPENDED"} -> "Stopped"
    [] OTHER -> "KeyError"

StateTranslator(x) ==
  CASE x \in {"CANCELLED", "COMPLETED", "PREEMPTED"} -> "Deleted"
    [] x \in {"COMPLETING", "RESIZING", "RUNNING", "SIGNALING", "STAGE_OUT"} -> "Running"
    [] x \in {"CONFIGURING", "PENDING", "REQUEUE_FED", "REQUEUE_HOLD", "REQUEUED",
              "SPECIAL_EXIT"} -> "Booting"
    [] x \in {"RESV_DEL_HOLD", "STOPPED", "SUSPENDED"} -> "Stopped"
    [] OTHER -> "Error"

\* handle_response with the adapter's key_translator and translator_functions:
\* a key of the response that the key_translator names is translated, any other
\* key is dropped, and what the response lacks is taken from `additional`.
handle_response(response, additional) ==
  [additional EXCEPT
     !.remote_resource_uuid =
        IF "JobId" \in DOMAIN response THEN ToInt(response.JobId) ELSE @,
     !.resource_status =
        IF "State" \in DOMAIN response THEN StateTranslator(response.State) ELSE @]

\* ------------------------------------------------ exception translation
\* The boundary without the clause that re-raises
\* TardisResourceStatusUpdateFailed: the clause for Exception catches it.
handle_exceptions_Slurm_nopass(exc) ==
  CASE exc = "CommandExecutionFailure" -> "TardisResourceStatusUpdateFailed"
    [] exc = "TimeoutError" -> "TardisTimeout"
    [] OTHER -> "TardisError"

\* The boundary without the clause for CommandExecutionFailure: the clause for
\* Exception catches it.
handle_exceptions_Slurm_generic(exc) ==
  CASE exc = "TardisResourceStatusUpdateFailed" -> "TardisResourceStatusUpdateFailed"
    [] exc = "TimeoutError" -> "TardisTimeout"
    [] OTHER -> "TardisError"

\* What leaves SlurmAdapter.handle_exceptions for an exception raised inside it.
handle_exceptions_Slurm(exc) ==
  CASE exc = "CommandExecutionFailure" -> "TardisResourceStatusUpdateFailed"
    [] exc = "TardisResourceStatusUpdateFailed" -> "TardisResourceStatusUpdateFailed"
    [] exc = "TimeoutError" -> "TardisTimeout"
    [] OTHER -> "TardisError"

\* What leaves ExoscaleAdapter.handle_exceptions: only the two listed kinds are
\* caught, anything else propagates as raised.
handle_exceptions_Exoscale(exc) ==
  CASE exc = "TimeoutError" -> "TardisTimeout"
    [] exc = "CloudStackClientException" -> "TardisError"
    [] OTHER -> exc

\* -------------------------------------------------------- SlurmAdapter
\* None in a place that holds an int (an id, a timestamp) when set.
Unset == 0 - 1

NoAttrs ==
  [remote_resource_uuid |-> Unset, created |-> Unset, updated |-> Unset,
   resource_status |-> None]

\* re.compile(r"^Submitted batch job (\d*)", re.MULTILINE).findall(stdout): stdout
\* is a sequence of lines, a line [submitted, digits] starts with the words
\* "Submitted batch job " or not, followed by `digits` (possibly none).
findall(stdout) ==
  LET RECURSIVE Groups(_)
      Groups(i) ==
        IF i > Len(stdout) THEN << >>
        ELSE IF stdout[i].submitted THEN << stdout[i].digits >> \o Groups(i + 1)
        ELSE Groups(i + 1)
  IN Groups(1)

\* deploy_resource with resource_attributes updated before the submit output is
\* checked: an output without a job id leaves a remote id behind.
deploy_resource_early(ra, result, t) ==
  IF result.exc # None THEN [exc |-> result.exc, attrs |-> ra]
  ELSE LET found == findall(result.stdout)
           early == [ra EXCEPT !.remote_resource_uuid = 0, !.created = t,
                               !.updated = t, !.resource_status = "Booting"]
       IN
    IF found = << >> THEN [exc |-> "IndexError", attrs |-> early]
    ELSE IF found[1] = << >> THEN [exc |-> "ValueError", attrs |-> early]
    ELSE [exc |-> None,
          attrs |-> [early EXCEPT !.remote_resource_uuid = DigitsToInt(found[1])]]

\* deploy_resource that does not store the parsed job id.
deploy_resource_nouuid(ra, result, t) ==
  IF result.exc # None THEN [exc |-> result.exc, attrs |-> ra]
  ELSE LET found == findall(result.stdout) IN
    IF found = << >> THEN [exc |-> "IndexError", attrs |-> ra]
    ELSE IF found[1] = << >> THEN [exc |-> "ValueError", attrs |-> ra]
    ELSE [exc |-> None,
          attrs |-> [ra EXCEPT !.created = t, !.updated = t,
                               !.resource_status = "Booting"]]

\* deploy_resource from the return of run_command on: `result` is what the executor
\* gave ([exc] raised, or [stdout]), `t` is datetime.now().
deploy_resource(ra, result, t) ==
  IF result.exc # None THEN [exc |-> result.exc, attrs |-> ra]
  ELSE LET found == findall(result.stdout) IN
    IF found = << >> THEN [exc |-> "IndexError", attrs |-> ra]
    ELSE IF found[1] = << >> THEN [exc |-> "ValueError", attrs |-> ra]
    ELSE [exc |-> None,
          attrs |-> [ra EXCEPT !.remote_resource_uuid = DigitsToInt(found[1]),
                               !.created = t, !.updated = t,
                               !.resource_status = "Booting"]]

\* An absent handle taken for a job still queued.
AbsentState_pending == "PENDING"

\* The fallback record of an absent handle.
AbsentState == "COMPLETED"

\* The comparison with its operands swapped.
CreatedAfterUpdate_swapped(lastUpdate, created) == created - lastUpdate < 0

\* The comparison made non-strict.
CreatedAfterUpdate_nonstrict(lastUpdate, created) == lastUpdate - created <= 0

\* Whether the created timestamp is after the cache's last update.
CreatedAfterUpdate(lastUpdate, created) == lastUpdate - created < 0

\* resource_status after update_status() has returned: the lookup in the cached
\* batch `cache` (job id string -> State) with its `lastUpdate`, at time `t`.
resource_status(ra, cache, lastUpdate, t) ==
  LET key == IntToDigits(ra.remote_resource_uuid) IN
  IF key \in DOMAIN cache
  THEN [exc |-> None,
        attrs |-> handle_response([JobId |-> PyStr(key), State |-> cache[key]],
                                  [ra EXCEPT !.updated = t])]
  ELSE IF CreatedAfterUpdate(lastUpdate, ra.created)
  THEN [exc |-> "TardisResourceStatusUpdateFailed", attrs |-> ra]
  ELSE [exc |-> None,
        attrs |-> handle_response([JobID |-> PyInt(ra.remote_resource_uuid),
                                   State |-> AbsentState],
                                  [ra EXCEPT !.updated = t])]

\* terminate_resource from the return of run_command (scancel) on.
terminate_resource(ra, result, t) ==
  IF result.exc # None THEN [exc |-> result.exc, attrs |-> ra]
  ELSE [exc |-> None,
        attrs |-> handle_response(
                    [JobId |-> PyInt(ra.remote_resource_uuid)],
                    [ra EXCEPT !.resource_status = "Stopped", !.updated = t])]

\* ------------------------------------------------------------ the scheduler
Put(f, k, v) == [x \in DOMAIN f \cup {k} |-> IF x = k THEN v ELSE f[x]]
Remove(f, k) == [x \in DOMAIN f \ {k} |-> f[x]]
EmptyMap == [x \in {} |-> None]

Raised(e) == [exc |-> e, stdout |-> << >>]
Stdout(lines) == [exc |-> None, stdout |-> lines]
Line(submitted, digits) == [submitted |-> submitted, digits |-> digits]

\* What executor.run_command can give for the sbatch command when the scheduler
\* would hand out job id `id`.
SbatchResults(id) ==
  { Raised("CommandExecutionFailure"), Raised("TimeoutError"),
    Stdout(<< Line(TRUE, IntToDigits(id)) >>),
    Stdout(<< Line(FALSE, << >>) >>),
    Stdout(<< Line(TRUE, << >>) >>) }

Submitted(result) ==
  result.exc = None /\ \E i \in 1..Len(result.stdout) :
     result.stdout[i].submitted /\ result.stdout[i].digits # << >>

\* What executor.run_command can give for the scancel command.
ScancelResults ==
  { Raised("CommandExecutionFailure"), Raised("TimeoutError"), Stdout(<< >>) }

\* The native states a job in state n can have moved to when squeue next lists it.
RECURSIVE Reach(_)
Reach(n) ==
  LET succ == CASE n = "PENDING" -> {"RUNNING", "FAILED"}
                [] n = "RUNNING" -> {"SUSPENDED", "COMPLETED"}
                [] n = "SUSPENDED" -> {"CANCELLED"}
                [] OTHER -> {}
  IN {n} \cup UNION { Reach(m) : m \in succ }

\* A finished job is forgotten after a while: squeue no longer lists it.
Finished == {"COMPLETED", "CANCELLED", "FAILED"}

\* The job tables squeue can list when the table was `table` at the last look:
\* every job has moved on or stayed, and finished jobs may be gone.
Listings(table) ==
  UNION { { f \in [S -> NativeStates] : \A k \in S : f[k] \in Reach(table[k]) } :
          S \in { T \in SUBSET DOMAIN table :
                    \A k \in DOMAIN table \ T : Reach(table[k]) \cap Finished # {} } }

\* Time passes.
Tick ==
  /\ now < MaxTime
  /\ now' = now + 1
  /\ UNCHANGED << state, stateObj, observers, notified, pc, ret, attrs, attempts, lastError,
                  termReq, provVars, cacheVars, deployOk, actedTerminal,
                  adapterVars >>

\* ------------------------------------------------------------------ Drone
\* Drone.notify_observers is a generator function: the call made by the state
\* setter only builds a generator object, which the setter drops; the body, the
\* observer.notify calls, would run when the generator is iterated, and nothing
\* iterates it. The value is the notification counts after the call.
notify_observers(d) == notified

\* The object that is the default value of the parameter `state` of
\* Drone.__init__: the default is evaluated once, when the function is defined,
\* so every call that passes no state gets this one RequestedState object.
DefaultState == "RequestedState()"

\* A state object made for drone d alone.
OwnState(d) == << "state of", d >>

\* The state setter: the drone holds the object assigned, a new state object.
StateSetter(d, s) ==
  /\ state' = [state EXCEPT ![d] = s]
  /\ stateObj' = [stateObj EXCEPT ![d] = OwnState(d)]
  /\ notified' = notify_observers(d)

register_observers(d, agent) ==
  /\ Len(observers[d]) < MaxObservers
  /\ observers' = [observers EXCEPT ![d] = Append(@, agent)]
  /\ UNCHANGED << state, stateObj, notified, pc, ret, attrs, attempts, lastError, termReq,
                  now, provVars, cacheVars, deployOk, actedTerminal, adapterVars >>

\* list.remove: the first occurrence goes.
RemoveFirst(seq, x) ==
  LET i == CHOOSE j \in 1..Len(seq) : seq[j] = x /\ \A l \in 1..(j - 1) : seq[l] # x
  IN SubSeq(seq, 1, i - 1) \o SubSeq(seq, i + 1, Len(seq))

remove_observers(d, agent) ==
  /\ \E j \in 1..Len(observers[d]) : observers[d][j] = agent
  /\ observers' = [observers EXCEPT ![d] = RemoveFirst(@, agent)]
  /\ UNCHANGED << state, stateObj, notified, pc, ret, attrs, attempts, lastError, termReq,
                  now, provVars, cacheVars, deployOk, actedTerminal, adapterVars >>

\* ------------------------------------------------- lifecycle state machine
\* The next state on an observed canonical status.
NextOnObservation(s, obs) ==
  CASE s = "Booting" /\ obs \in {"Running", "Deleted", "Error"} -> obs
    [] s = "Running" /\ obs \in {"Stopped", "Deleted"} -> obs
    [] s = "Stopped" /\ obs = "Deleted" -> obs
    [] OTHER -> s

Transient == {"TardisTimeout", "TardisError"}
Inconclusive == "TardisResourceStatusUpdateFailed"

\* A transition: the state is reassigned only when it changes, and the attempt
\* record starts afresh.
Transition(d, s) ==
  IF s = state[d]
  THEN UNCHANGED << state, stateObj, notified >>
  ELSE StateSetter(d, s)

\* The operation of drone d's state succeeded; the next state is s.
Succeeded(d, s) ==
  /\ Transition(d, s)
  /\ attempts' = [attempts EXCEPT ![d] = 0]
  /\ lastError' = [lastError EXCEPT ![d] = None]

\* The operation of drone d's state raised `err` (as it left the adapter's
\* boundary): an inconclusive update is no attempt; a transient failure counts
\* against the budget and the drone goes to Error when the budget is used up.
Failed(d, err) ==
  /\ lastError' = [lastError EXCEPT ![d] = err]
  /\ IF err = Inconclusive
     THEN UNCHANGED << state, stateObj, notified, attempts >>
     ELSE /\ attempts' = [attempts EXCEPT ![d] = @ + 1]
          /\ IF attempts[d] + 1 >= RetryBudget
             THEN StateSetter(d, "Error")
             ELSE UNCHANGED << state, stateObj, notified >>

\* ------------------------------------------------------- Requested: deploy
\* RequestedState.run up to the suspension in run_command: the sbatch command is
\* issued; the scheduler queues a job when it accepts the submission.
RequestedRun(d) ==
  /\ \E result \in SbatchResults(nextJobId) :
       /\ ret' = [ret EXCEPT ![d] = result]
       /\ IF Submitted(result)
          THEN /\ jobs' = Put(jobs, IntToDigits(nextJobId), "PENDING")
               /\ nextJobId' = nextJobId + 1
          ELSE UNCHANGED << jobs, nextJobId >>
  /\ pc' = [pc EXCEPT ![d] = "deploy_await"]
  /\ actedTerminal' = [actedTerminal EXCEPT ![d] = @ \/ state[d] \in TerminalStates]
  /\ UNCHANGED << state, stateObj, observers, notified, attrs, attempts, lastError, termReq,
                  now, cacheVars, deployOk, adapterVars >>

\* run_command has returned: the rest of deploy_resource, inside the adapter's
\* exception boundary, and the state's transition. resource_attributes is updated
\* in place, so it is as deploy_resource left it whether it returned or raised.
DeployReturn(d) ==
  /\ pc[d] = "deploy_await"
  /\ LET res == deploy_resource(attrs[d], ret[d], now) IN
       /\ attrs' = [attrs EXCEPT ![d] = res.attrs]
       /\ IF res.exc = None
          THEN /\ deployOk' = [deployOk EXCEPT ![d] = @ + 1]
               /\ Succeeded(d, "Booting")
          ELSE /\ Failed(d, handle_exceptions_Slurm(res.exc))
               /\ UNCHANGED deployOk
  /\ pc' = [pc EXCEPT ![d] = "idle"]
  /\ ret' = [ret EXCEPT ![d] = None]
  /\ UNCHANGED << observers, termReq, now, provVars, cacheVars, actedTerminal,
                  adapterVars >>

\* ------------------------------------------------------------ status cache
\* AsyncCacheMap: the batch is younger than max_age.
CacheFresh == hasSnapshot /\ now - last_update < MaxAge

\* AsyncCacheMap.update_status on a batch that is not fresh: the caller attaches
\* to the refresh in flight, or starts the one refresh.
update_status(d) ==
  /\ IF outstanding > 0
     THEN UNCHANGED outstanding
     ELSE outstanding' = 1
  /\ waiters' = waiters \cup {d}
  /\ UNCHANGED << cacheData, last_update, hasSnapshot, cacheStale >>

\* resource_status from the return of update_status() on, with `r` what
\* update_status gave, and the state's transition on the outcome.
FinishStatus(d, r) ==
  LET res == IF r.exc # None THEN [exc |-> r.exc, attrs |-> attrs[d]]
             ELSE resource_status(attrs[d], cacheData, last_update, now)
  IN /\ attrs' = [attrs EXCEPT ![d] = res.attrs]
     /\ IF res.exc = None
        THEN Succeeded(d, NextOnObservation(state[d], res.attrs.resource_status))
        ELSE Failed(d, handle_exceptions_Slurm(res.exc))
     /\ pc' = [pc EXCEPT ![d] = "idle"]
     /\ ret' = [ret EXCEPT ![d] = None]

\* resource_status awaiting a squeue run of its own instead of the cache's
\* update_status().
resource_status_call_own(d) ==
  /\ outstanding' = outstanding + 1
  /\ waiters' = waiters \cup {d}
  /\ pc' = [pc EXCEPT ![d] = "status_await"]
  /\ UNCHANGED << cacheData, last_update, hasSnapshot, cacheStale, state, stateObj,
                  notified,
                  attrs, attempts, lastError, ret >>

\* SlurmAdapter.resource_status up to the return of its first statement, the
\* await of the cache's update_status(): on a fresh batch nothing suspends and the
\* lookup follows at once.
resource_status_call(d) ==
  IF CacheFresh
  THEN FinishStatus(d, Raised(None)) /\ UNCHANGED cacheVars
  ELSE /\ update_status(d)
       /\ pc' = [pc EXCEPT ![d] = "status_await"]
       /\ UNCHANGED << state, stateObj, notified, attrs, attempts, lastError, ret >>

\* Booting, Running, Stopped: poll the status, or follow a terminate request.
PollRun(d) ==
  /\ IF termReq[d] /\ state[d] \in {"Running", "Stopped"}
     THEN /\ Succeeded(d, "Terminating")
          /\ UNCHANGED << pc, ret, attrs, cacheVars, actedTerminal >>
     ELSE /\ resource_status_call(d)
          /\ actedTerminal' =
               [actedTerminal EXCEPT ![d] = @ \/ state[d] \in TerminalStates]
  /\ UNCHANGED << observers, termReq, now, provVars, deployOk, adapterVars >>

\* A drone resumes after the refresh it awaited.
StatusResume(d) ==
  /\ pc[d] = "status_ready"
  /\ FinishStatus(d, ret[d])
  /\ UNCHANGED << observers, termReq, now, provVars, cacheVars, deployOk,
                  actedTerminal, adapterVars >>

Release(r) ==
  /\ pc' = [d \in Drones |-> IF d \in waiters THEN "status_ready" ELSE pc[d]]
  /\ ret' = [d \in Drones |-> IF d \in waiters THEN r ELSE ret[d]]
  /\ waiters' = {}
  /\ outstanding' = outstanding - 1

\* slurm_status_updater returns the batch: one row per job squeue lists.
RefreshDone ==
  /\ outstanding > 0
  /\ \E listing \in Listings(jobs) :
       /\ jobs' = listing
       /\ cacheData' = listing
  /\ last_update' = now
  /\ hasSnapshot' = TRUE
  /\ cacheStale' = FALSE
  /\ Release(Raised(None))
  /\ UNCHANGED << state, stateObj, observers, notified, attrs, attempts, lastError, termReq,
                  now, nextJobId, deployOk, actedTerminal, adapterVars >>

\* A refresh that propagates its failure to the waiting callers even though a
\* batch is stored.
OnRefreshFailure_propagate(e) ==
  /\ cacheStale' = hasSnapshot
  /\ Release(Raised(e))

\* The cache's refresh failure policy: a batch stored before stays and is flagged
\* stale; without one the failure reaches every waiting caller.
OnRefreshFailure(e) ==
  IF hasSnapshot
  THEN cacheStale' = TRUE /\ Release(Raised(None))
  ELSE cacheStale' = cacheStale /\ Release(Raised(e))

\* slurm_status_updater raises: run_command failed or timed out.
RefreshFailed ==
  /\ outstanding > 0
  /\ \E e \in {"CommandExecutionFailure", "TimeoutError"} : OnRefreshFailure(e)
  /\ UNCHANGED << state, stateObj, observers, notified, attrs, attempts, lastError, termReq,
                  now, provVars, cacheData, last_update, hasSnapshot, deployOk,
                  actedTerminal, adapterVars >>

\* --------------------------------------------------- Terminating: terminate
TerminatingRun(d) ==
  /\ \E result \in ScancelResults :
       /\ ret' = [ret EXCEPT ![d] = result]
       /\ LET k == IntToDigits(attrs[d].remote_resource_uuid) IN
          IF result.exc = None /\ k \in DOMAIN jobs
          THEN jobs' = [jobs EXCEPT ![k] = "CANCELLED"]
          ELSE UNCHANGED jobs
  /\ pc' = [pc EXCEPT ![d] = "terminate_await"]
  /\ actedTerminal' = [actedTerminal EXCEPT ![d] = @ \/ state[d] \in TerminalStates]
  /\ UNCHANGED << state, stateObj, observers, notified, attrs, attempts, lastError, termReq,
                  now, nextJobId, cacheVars, deployOk, adapterVars >>

\* A terminate whose failure is handled like that of any other operation.
TerminateReturn_strict(d) ==
  /\ pc[d] = "terminate_await"
  /\ LET res == terminate_resource(attrs[d], ret[d], now) IN
       /\ attrs' = [attrs EXCEPT ![d] = res.attrs]
       /\ IF res.exc = None
          THEN Succeeded(d, "Deleted")
          ELSE Failed(d, handle_exceptions_Slurm(res.exc))
  /\ pc' = [pc EXCEPT ![d] = "idle"]
  /\ ret' = [ret EXCEPT ![d] = None]
  /\ UNCHANGED << observers, termReq, now, provVars, cacheVars, deployOk,
                  actedTerminal, adapterVars >>

\* scancel has returned: whatever the outcome, the drone goes to Deleted.
TerminateReturn(d) ==
  /\ pc[d] = "terminate_await"
  /\ LET res == terminate_resource(attrs[d], ret[d], now) IN
       /\ attrs' = [attrs EXCEPT ![d] = res.attrs]
       /\ lastError' = [lastError EXCEPT ![d] =
            IF res.exc = None THEN None ELSE handle_exceptions_Slurm(res.exc)]
  /\ Transition(d, "Deleted")
  /\ attempts' = [attempts EXCEPT ![d] = 0]
  /\ pc' = [pc EXCEPT ![d] = "idle"]
  /\ ret' = [ret EXCEPT ![d] = None]
  /\ UNCHANGED << observers, termReq, now, provVars, cacheVars, deployOk,
                  actedTerminal, adapterVars >>

\* Deleted, Error: the state has no action and no transition.
TerminalRun(d) == UNCHANGED vars

\* state.run(drone) for a drone whose state is s.
StateRun(s, d) ==
  \/ s = "Requested" /\ RequestedRun(d)
  \/ s \in {"Booting", "Running", "Stopped"} /\ PollRun(d)
  \/ s = "Terminating" /\ TerminatingRun(d)
  \/ s \in TerminalStates /\ TerminalRun(d)

\* Drone.run running the state the drone was constructed with, not its current one.
run_initial(d) ==
  /\ pc[d] = "idle"
  /\ StateRun("Requested", d)

\* Drone.run running the state of any drone, not its own.
run_other(d) ==
  /\ pc[d] = "idle"
  /\ \E e \in Drones : StateRun(state[e], d)

\* Drone.run starting a round without awaiting the end of the one before.
run_reentrant(d) == StateRun(state[d], d)

\* One round of Drone.run: the drone's current state runs.
run(d) ==
  /\ pc[d] = "idle"
  /\ StateRun(state[d], d)

\* The planning loop asks for the drone to be terminated.
RequestTerminate(d) ==
  /\ state[d] \in {"Running", "Stopped"}
  /\ ~termReq[d]
  /\ termReq' = [termReq EXCEPT ![d] = TRUE]
  /\ UNCHANGED << state, stateObj, observers, notified, pc, ret, attrs, attempts, lastError,
                  now, provVars, cacheVars, deployOk, actedTerminal, adapterVars >>

\* -------------------------------------------------------- ExoscaleAdapter
Adapters == {"Slurm", "Exoscale"}

NoXAttrs ==
  [resource_id |-> Unset, dns_name |-> Unset, created |-> Unset,
   resource_status |-> None, updated |-> Unset]

\* A CloudStack response: the 'virtualmachine' entry is one machine, a list of
\* machines, or missing.
RespOne(vm) == [exc |-> None, kind |-> "one", vms |-> << vm >>]
RespList(list) == [exc |-> None, kind |-> "list", vms |-> list]
RespNoKey == [exc |-> None, kind |-> "nokey", vms |-> << >>]
RespRaised(e) == [exc |-> e, kind |-> None, vms |-> << >>]

Machine(id, st) == [id |-> id, name |-> id, created |-> 0, state |-> st]

\* ExoscaleAdapter.handle_response.
handle_response_Exoscale(response) ==
  IF response.kind = "nokey" THEN [exc |-> "KeyError", attrs |-> NoXAttrs]
  ELSE IF response.kind = "list" /\ response.vms = << >>
  THEN [exc |-> "IndexError", attrs |-> NoXAttrs]
  ELSE LET vm == response.vms[1] IN
       [exc |-> None,
        attrs |-> [resource_id |-> vm.id, dns_name |-> vm.name,
                   created |-> vm.created, resource_status |-> vm.state,
                   updated |-> vm.created]]

\* deploy_resource and resource_status of the Exoscale adapter from the return of
\* the CloudStack call on.
exoscale_call(result) ==
  IF result.exc # None THEN [exc |-> result.exc, attrs |-> NoXAttrs]
  ELSE handle_response_Exoscale(result)

\* terminate_resource of the Exoscale adapter: the response is returned as it is.
exoscale_terminate(result) == [exc |-> result.exc]

\* The exception chained to what leaves SlurmAdapter.handle_exceptions (its
\* __cause__ after "raise ... from", its __context__ after a raise inside the
\* except clause): the exception caught; the bare "raise" passes the
\* TardisResourceStatusUpdateFailed on as it is.
cause_Slurm(exc) ==
  CASE exc = "TardisResourceStatusUpdateFailed" -> None
    [] OTHER -> exc

\* The exception chained to what leaves ExoscaleAdapter.handle_exceptions.
cause_Exoscale(exc) ==
  CASE exc \in {"TimeoutError", "CloudStackClientException"} -> exc
    [] OTHER -> None

Leaves(adapter, exc) ==
  IF exc = None THEN None
  ELSE IF adapter = "Slurm" THEN handle_exceptions_Slurm(exc)
  ELSE handle_exceptions_Exoscale(exc)

Cause(adapter, exc) ==
  IF exc = None THEN None
  ELSE IF adapter = "Slurm" THEN cause_Slurm(exc)
  ELSE cause_Exoscale(exc)

NoCall ==
  [adapter |-> None, op |-> None, res |-> 0, gone |-> FALSE, nth |-> 0,
   raised |-> None, left |-> None, cause |-> None, status |-> None]

\* The record of a call of `op` on resource d through the adapter's boundary.
Called(adapter, op, d, gone, nth, exc, status) ==
  [adapter |-> adapter, op |-> op, res |-> d, gone |-> gone, nth |-> nth,
   raised |-> exc, left |-> Leaves(adapter, exc), cause |-> Cause(adapter, exc),
   status |-> status]

\* What CloudStack can answer.
ExoDeployResults(id) ==
  { RespRaised("TimeoutError"), RespRaised("CloudStackClientException"),
    RespOne(Machine(id, "Starting")) }

ExoListResults(id) ==
  IF id \in DOMAIN vms
  THEN { RespRaised("TimeoutError"), RespList(<< Machine(id, vms[id]) >>) }
  ELSE { RespRaised("CloudStackClientException"), RespNoKey, RespList(<< >>) }

ExoDestroyResults(id) ==
  IF id \in DOMAIN vms
  THEN { RespRaised("TimeoutError"), RespRaised("CloudStackClientException"),
         RespNoKey }
  ELSE { RespRaised("CloudStackClientException"), RespNoKey }

\* --------------------------------------- the adapters' operations, directly
SlurmDeploy(d) ==
  /\ ncalls < MaxCalls
  /\ attrs[d].remote_resource_uuid = Unset
  /\ \E result \in SbatchResults(nextJobId) :
       LET res == deploy_resource(attrs[d], result, now) IN
         /\ attrs' = [attrs EXCEPT ![d] = res.attrs]
         /\ call' = Called("Slurm", "deploy", d, FALSE, 1, res.exc,
                           res.attrs.resource_status)
         /\ IF Submitted(result)
            THEN /\ jobs' = Put(jobs, IntToDigits(nextJobId), "PENDING")
                 /\ nextJobId' = nextJobId + 1
            ELSE UNCHANGED << jobs, nextJobId >>
  /\ ncalls' = ncalls + 1
  /\ UNCHANGED << state, stateObj, observers, notified, pc, ret, attempts, lastError, termReq,
                  now, cacheVars, deployOk, actedTerminal, vms, xattrs, nterm >>

SlurmTerminate(d) ==
  /\ ncalls < MaxCalls
  /\ attrs[d].remote_resource_uuid # Unset
  /\ LET k == IntToDigits(attrs[d].remote_resource_uuid) IN
     \E result \in ScancelResults :
       LET res == terminate_resource(attrs[d], result, now) IN
         /\ attrs' = [attrs EXCEPT ![d] = res.attrs]
         /\ call' = Called("Slurm", "terminate", d, k \notin DOMAIN jobs,
                           nterm["Slurm"][d] + 1, res.exc, res.attrs.resource_status)
         /\ IF result.exc = None /\ k \in DOMAIN jobs
            THEN jobs' = [jobs EXCEPT ![k] = "CANCELLED"]
            ELSE UNCHANGED jobs
  /\ nterm' = [nterm EXCEPT !["Slurm"][d] = @ + 1]
  /\ ncalls' = ncalls + 1
  /\ UNCHANGED << state, stateObj, observers, notified, pc, ret, attempts, lastError, termReq,
                  now, nextJobId, cacheVars, deployOk, actedTerminal, vms, xattrs >>

\* The scheduler forgets a finished job.
SchedulerForgets(k) ==
  /\ jobs[k] \in Finished
  /\ jobs' = Remove(jobs, k)
  /\ UNCHANGED << state, stateObj, observers, notified, pc, ret, attrs, attempts, lastError,
                  termReq, now, nextJobId, cacheVars, deployOk, actedTerminal,
                  adapterVars >>

ExoscaleDeploy(d) ==
  /\ ncalls < MaxCalls
  /\ xattrs[d].resource_id = Unset
  /\ \E result \in ExoDeployResults(d) :
       LET res == exoscale_call(result) IN
         /\ xattrs' = [xattrs EXCEPT ![d] = IF res.exc = None THEN res.attrs ELSE @]
         /\ call' = Called("Exoscale", "deploy", d, FALSE, 1, res.exc,
                           res.attrs.resource_status)
         /\ IF result.exc = None
            THEN vms' = Put(vms, d, "Starting")
            ELSE UNCHANGED vms
  /\ ncalls' = ncalls + 1
  /\ UNCHANGED << state, stateObj, observers, notified, pc, ret, attrs, attempts, lastError,
                  termReq, now, provVars, cacheVars, deployOk, actedTerminal, nterm >>

ExoscaleStatus(d) ==
  /\ ncalls < MaxCalls
  /\ xattrs[d].resource_id # Unset
  /\ \E result \in ExoListResults(xattrs[d].resource_id) :
       LET res == exoscale_call(result) IN
         /\ xattrs' = [xattrs EXCEPT ![d] = IF res.exc = None THEN res.attrs ELSE @]
         /\ call' = Called("Exoscale", "status", d,
                           xattrs[d].resource_id \notin DOMAIN vms, 1, res.exc,
                           res.attrs.resource_status)
  /\ ncalls' = ncalls + 1
  /\ UNCHANGED << state, stateObj, observers, notified, pc, ret, attrs, attempts, lastError,
                  termReq, now, provVars, cacheVars, deployOk, actedTerminal, vms,
                  nterm >>

ExoscaleTerminate(d) ==
  /\ ncalls < MaxCalls
  /\ xattrs[d].resource_id # Unset
  /\ LET id == xattrs[d].resource_id IN
     \E result \in ExoDestroyResults(id) :
       LET res == exoscale_terminate(result) IN
         /\ call' = Called("Exoscale", "terminate", d, id \notin DOMAIN vms,
                           nterm["Exoscale"][d] + 1, res.exc,
                           xattrs[d].resource_status)
         /\ IF result.exc = None /\ id \in DOMAIN vms
            THEN vms' = [vms EXCEPT ![id] = "Destroyed"]
            ELSE UNCHANGED vms
  /\ nterm' = [nterm EXCEPT !["Exoscale"][d] = @ + 1]
  /\ ncalls' = ncalls + 1
  /\ UNCHANGED << state, stateObj, observers, notified, pc, ret, attrs, attempts, lastError,
                  termReq, now, provVars, cacheVars, deployOk, actedTerminal,
                  xattrs >>

\* CloudStack expunges a destroyed machine.
Expunge(id) ==
  /\ vms[id] = "Destroyed"
  /\ vms' = Remove(vms, id)
  /\ UNCHANGED << state, stateObj, observers, notified, pc, ret, attrs, attempts, lastError,
                  termReq, now, provVars, cacheVars, deployOk, actedTerminal, call,
                  xattrs, nterm, ncalls >>

\* The key drone d's job has in the batch: str(remote_resource_uuid).
Key(d) == IntToDigits(attrs[d].remote_resource_uuid)

\* ------------------------------------- resource_status on any squeue batch
\* slurm_status_updater returns a batch listing every job submitted, the State
\* column holding any string.
SqueueBatch ==
  /\ ncalls < MaxCalls
  /\ \E batch \in [DOMAIN jobs -> StateStrings] : cacheData' = batch
  /\ last_update' = now
  /\ hasSnapshot' = TRUE
  /\ ncalls' = ncalls + 1
  /\ UNCHANGED << state, stateObj, observers, notified, pc, ret, attrs, attempts,
                  lastError, termReq, now, provVars, cacheStale, outstanding,
                  waiters, deployOk, actedTerminal, call, vms, xattrs, nterm >>

\* SlurmAdapter.resource_status within handle_exceptions, on the batch stored.
SlurmStatus(d) ==
  /\ ncalls < MaxCalls
  /\ attrs[d].remote_resource_uuid # Unset
  /\ hasSnapshot
  /\ LET res == resource_status(attrs[d], cacheData, last_update, now) IN
       /\ attrs' = [attrs EXCEPT ![d] = res.attrs]
       /\ call' = Called("Slurm", "status", d, Key(d) \notin DOMAIN cacheData, 1,
                         res.exc, res.attrs.resource_status)
  /\ ncalls' = ncalls + 1
  /\ UNCHANGED << state, stateObj, observers, notified, pc, ret, attempts,
                  lastError, termReq, now, provVars, cacheVars, deployOk,
                  actedTerminal, vms, xattrs, nterm >>

\* ------------------------------------------- the Drone's interface, directly
\* drone.state = s
set_state(d, s) ==
  /\ StateSetter(d, s)
  /\ UNCHANGED << observers, pc, ret, attrs, attempts, lastError, termReq, now,
                  provVars, cacheVars, deployOk, actedTerminal, adapterVars >>

\* ---------------------------------------------------------- specification
InitAdapter ==
  /\ call = NoCall
  /\ vms = EmptyMap
  /\ xattrs = [d \in Drones |-> NoXAttrs]
  /\ nterm = [a \in Adapters |-> [d \in Drones |-> 0]]
  /\ ncalls = 0

\* Drone(site_agent, batch_system_agent) for every drone, with the observers
\* `agents` registered on each afterwards.
InitOf(agents) ==
  /\ state = [d \in Drones |-> "Requested"]
  /\ stateObj = [d \in Drones |-> DefaultState]
  /\ observers = [d \in Drones |-> agents]
  /\ notified = [d \in Drones |-> [o \in Observers |-> 0]]
  /\ pc = [d \in Drones |-> "idle"]
  /\ ret = [d \in Drones |-> None]
  /\ attrs = [d \in Drones |-> NoAttrs]
  /\ attempts = [d \in Drones |-> 0]
  /\ lastError = [d \in Drones |-> None]
  /\ termReq = [d \in Drones |-> FALSE]
  /\ now = 0
  /\ jobs = EmptyMap
  /\ nextJobId = 1
  /\ cacheData = EmptyMap
  /\ last_update = 0
  /\ hasSnapshot = FALSE
  /\ cacheStale = FALSE
  /\ outstanding = 0
  /\ waiters = {}
  /\ deployOk = [d \in Drones |-> 0]
  /\ actedTerminal = [d \in Drones |-> FALSE]
  /\ InitAdapter

Init == InitOf(<< >>)

\* The drones with an observer registered on each.
InitObserved == InitOf(<< "obs" >>)

Next ==
  \/ \E d \in Drones : run(d)
  \/ \E d \in Drones : DeployReturn(d)
  \/ \E d \in Drones : StatusResume(d)
  \/ \E d \in Drones : TerminateReturn(d)
  \/ \E d \in Drones : RequestTerminate(d)
  \/ RefreshDone
  \/ RefreshFailed
  \/ Tick

Spec == Init /\ [][Next]_vars

SpecObserved == InitObserved /\ [][Next]_vars

NextAdapter ==
  \/ \E d \in Drones : SlurmDeploy(d)
  \/ \E d \in Drones : SlurmTerminate(d)
  \/ \E k \in DOMAIN jobs : SchedulerForgets(k)
  \/ \E d \in Drones : ExoscaleDeploy(d)
  \/ \E d \in Drones : ExoscaleStatus(d)
  \/ \E d \in Drones : ExoscaleTerminate(d)
  \/ \E id \in DOMAIN vms : Expunge(id)

SpecAdapter == Init /\ [][NextAdapter]_vars

NextStatus ==
  \/ \E d \in Drones : SlurmDeploy(d)
  \/ SqueueBatch
  \/ \E d \in Drones : SlurmStatus(d)

SpecStatus == Init /\ [][NextStatus]_vars

NextDrone ==
  \/ \E d \in Drones, s \in DroneStates : set_state(d, s)
  \/ \E d \in Drones, o \in Observers : register_observers(d, o)
  \/ \E d \in Drones, o \in Observers : remove_observers(d, o)

SpecDrone == Init /\ [][NextDrone]_vars

\* ================================================================== claims
Taxonomy == {"TardisTimeout", "TardisError", "TardisResourceStatusUpdateFailed"}

\* How often observer o is registered on drone d.
Registered(d, o) == Cardinality({ j \in 1..Len(observers[d]) : observers[d][j] = o })

\* C1: every reassignment of a drone's state through the setter notifies every
\* observer registered on the drone at that moment, once per registration, before
\* the assignment returns.
C1_SetterNotifiesObservers ==
  [][\A d \in Drones :
       state'[d] # state[d] =>
         \A o \in Observers : notified'[d][o] = notified[d][o] + Registered(d, o)]_vars

\* C6: a second terminate on a resource whose handle is already gone at the
\* provider does not raise (the lifecycle has the resource in Deleted, and a call
\* that returns leaves it there).
C6_TerminateIdempotent ==
  (call.op = "terminate" /\ call.nth >= 2 /\ call.gone) => call.left = None

\* C10: whatever is raised inside an adapter's handle_exceptions boundary leaves it
\* as one of the taxonomy kinds, a timeout as TardisTimeout, and what was caught is
\* carried as the cause.
C10_BoundaryTotal ==
  call.raised # None =>
    /\ call.left \in Taxonomy
    /\ call.raised = "TimeoutError" => call.left = "TardisTimeout"
    /\ call.left # call.raised => call.cause = call.raised

\* ---------------------------------------------------------- the lifecycle
Polling(d) == state[d] \in {"Booting", "Running", "Stopped"}

\* The next step of drone d's coroutine is the lookup of its handle in the
\* cached batch as it is now.
AtLookup(d) ==
  \/ pc[d] = "status_ready" /\ ret[d].exc = None
  \/ /\ pc[d] = "idle" /\ Polling(d) /\ CacheFresh
     /\ ~(termReq[d] /\ state[d] \in {"Running", "Stopped"})

Absent(d) == Key(d) \notin DOMAIN cacheData

DroneView(d) == << state[d], pc[d], attrs[d], lastError[d], attempts[d] >>

C2_Case(d) == AtLookup(d) /\ Absent(d) /\ attrs[d].created > last_update

\* C2: a status query on a resource whose handle is absent from the cached batch
\* and that was created strictly after the cache's last refresh reports
\* TardisResourceStatusUpdateFailed and changes neither the drone's state nor its
\* resource attributes, as often as it is repeated against that batch.
C2_InconclusiveNeverDeletes ==
  [][\A d \in Drones :
       C2_Case(d) =>
         /\ state'[d] = state[d]
         /\ attrs'[d] = attrs[d]
         /\ lastError'[d] \in {lastError[d], Inconclusive}
         /\ pc'[d] # pc[d] => lastError'[d] = Inconclusive]_vars

\* A drone that has been told "inconclusive" and faces the same batch again.
C2_Witness ==
  \E d \in Drones :
    C2_Case(d) /\ pc[d] = "idle" /\ lastError[d] = Inconclusive /\ hasSnapshot

C3_Case(d) == AtLookup(d) /\ Absent(d) /\ attrs[d].created < last_update

\* C3: a status query on a resource whose handle is absent from the cached batch
\* and that was created strictly before the cache's last refresh does not fail and
\* reports Deleted on that very query, which takes the drone to Deleted.
C3_AbsentIsDeleted ==
  [][\A d \in Drones :
       (C3_Case(d) /\ DroneView(d)' # DroneView(d)) =>
         /\ pc'[d] = "idle"
         /\ lastError'[d] = None
         /\ attrs'[d].resource_status = "Deleted"
         /\ state'[d] = "Deleted"]_vars

\* A drone reclaimed by a lookup made after the last refresh.
C3_Witness ==
  \E d \in Drones :
    /\ state[d] = "Deleted" /\ attrs[d].resource_status = "Deleted"
    /\ Absent(d)
    /\ attrs[d].created < last_update /\ last_update < attrs[d].updated

C4_Inv ==
  /\ outstanding <= 1
  /\ waiters # {} => outstanding = 1
  /\ \A d \in Drones : pc[d] = "status_await" <=> d \in waiters

C4_Act ==
  /\ outstanding' > outstanding => (outstanding = 0 /\ ~CacheFresh)
  /\ \A d \in Drones :
       (pc[d] = "idle" /\ pc'[d] = "status_await" /\ outstanding > 0) =>
          (outstanding' = outstanding /\ d \in waiters')

\* C4: at no time are two squeue runs of the site outstanding; a run is started
\* only on a batch that is not fresh; a caller arriving during a run attaches to it
\* and starts none; every waiting caller waits on the one run.
C4_OneBulkQuery == []C4_Inv /\ [][C4_Act]_vars

\* Two concurrent callers attached to one squeue run.
C4_Witness == Cardinality(waiters) = 2 /\ outstanding = 1

C5_Inv ==
  \A d \in Drones :
    /\ attrs[d].remote_resource_uuid # Unset <=> deployOk[d] = 1
    /\ deployOk[d] <= 1
    /\ state[d] \in {"Running", "Stopped"} => deployOk[d] = 1
    /\ attrs[d].remote_resource_uuid = Unset => state[d] \in {"Requested", "Error"}

C5_Act ==
  \A d \in Drones :
    /\ attrs[d].remote_resource_uuid # Unset =>
         attrs'[d].remote_resource_uuid = attrs[d].remote_resource_uuid
    /\ (pc[d] = "deploy_await" /\ ~Submitted(ret[d])) =>
         attrs'[d].remote_resource_uuid = Unset

\* C5: the remote id is set exactly when deploy_resource has returned successfully,
\* which happens at most once; a failed deploy leaves it unset; once set it does not
\* change; a drone in Running or Stopped has had its successful deploy.
C5_RemoteIdIffDeployed == []C5_Inv /\ [][C5_Act]_vars

\* One drone deployed and running, another failed out without a remote id.
C5_Witness ==
  \E d, e \in Drones :
    /\ state[d] = "Running" /\ attrs[d].remote_resource_uuid # Unset
    /\ state[e] = "Error" /\ attrs[e].remote_resource_uuid = Unset

\* C7: once a drone is in Deleted or Error, no step changes its state, its
\* resource attributes or the position of its loop, and no deploy, status query or
\* terminate is issued for it.
C7_NoResurrection ==
  [][\A d \in Drones :
       state[d] \in TerminalStates =>
         /\ state'[d] = state[d]
         /\ pc'[d] = "idle"
         /\ attrs'[d] = attrs[d]
         /\ ~actedTerminal'[d]]_vars

\* A drone deleted some time ago, and a drone in Error.
C7_Witness ==
  \E d, e \in Drones :
    state[d] = "Deleted" /\ now > attrs[d].updated /\ state[e] = "Error"

C8_Inv == \A d \in Drones : state[d] = "Requested" => attempts[d] < RetryBudget

C8_Act ==
  \A d \in Drones :
    /\ (pc[d] = "deploy_await" /\ Submitted(ret[d]) /\ pc'[d] = "idle") =>
         (state'[d] = "Booting" /\ attrs'[d].remote_resource_uuid # Unset)
    /\ (state[d] = "Requested" /\ state'[d] = "Error") =>
         (attempts[d] + 1 = RetryBudget /\ lastError'[d] \in Transient)

\* C8: a deploy that succeeds after fewer than RetryBudget failed attempts takes
\* the drone to Booting with its remote id set; a drone leaves Requested for Error
\* only on the failure that uses up the budget.
C8_RetryThenBooting == []C8_Inv /\ [][C8_Act]_vars

\* A deploy about to return successfully after RetryBudget - 1 failed attempts.
C8_Witness ==
  \E d \in Drones :
    pc[d] = "deploy_await" /\ attempts[d] = RetryBudget - 1 /\ Submitted(ret[d])

\* C9: every failed deploy attempt uses up one attempt of the budget, and the
\* attempt that uses up the last takes the drone to Error with the error retained
\* (so a deploy that fails every time ends in Error after RetryBudget attempts).
C9_ExhaustionIsFatal ==
  [][\A d \in Drones :
       (pc[d] = "deploy_await" /\ ~Submitted(ret[d]) /\ pc'[d] = "idle") =>
         /\ attempts'[d] = attempts[d] + 1
         /\ attempts'[d] >= RetryBudget =>
              (state'[d] = "Error" /\ lastError'[d] # None)]_vars

\* ------------------------------------------------- the outcome of a tick
\* What the adapter operation that drone d's coroutine is about to complete
\* gives: the exception raised inside the boundary (or None) and the resource
\* attributes as the operation leaves them.
OpResult(d) ==
  CASE pc[d] = "deploy_await" -> deploy_resource(attrs[d], ret[d], now)
    [] pc[d] = "terminate_await" -> terminate_resource(attrs[d], ret[d], now)
    [] pc[d] = "status_ready" /\ ret[d].exc # None ->
         [exc |-> ret[d].exc, attrs |-> attrs[d]]
    [] OTHER -> resource_status(attrs[d], cacheData, last_update, now)

\* The step completes the operation of drone d's tick.
StepOf(d) ==
  \/ pc[d] \in {"deploy_await", "status_ready", "terminate_await"} /\ pc'[d] = "idle"
  \/ pc[d] = "idle" /\ AtLookup(d) /\ DroneView(d)' # DroneView(d)

\* The status query of drone d completes and observes canonical status st.
Observes(d, st) ==
  /\ StepOf(d)
  /\ pc[d] \in {"status_ready", "idle"}
  /\ OpResult(d).exc = None
  /\ OpResult(d).attrs.resource_status = st

\* Observer o is notified once per registration on drone d by the step.
NotifiedOnce(d, o) == notified'[d][o] = notified[d][o] + Registered(d, o)

\* C11: scenario A, step by step, with an observer registered on the drone: the
\* successful deploy takes Requested to Booting, a status query returning Booting
\* leaves Booting, one returning Running takes Booting to Running, the terminate
\* request takes Running to Terminating, the terminate takes Terminating to
\* Deleted; each of the 4 changes notifies every registered observer once and the
\* query that changes nothing notifies nobody.
C11_ScenarioA ==
  [][\A d \in Drones : \A o \in Observers :
       /\ (StepOf(d) /\ pc[d] = "deploy_await" /\ state[d] = "Requested"
             /\ OpResult(d).exc = None) =>
            (state'[d] = "Booting" /\ NotifiedOnce(d, o))
       /\ (state[d] = "Booting" /\ Observes(d, "Booting")) =>
            (state'[d] = "Booting" /\ notified'[d][o] = notified[d][o])
       /\ (state[d] = "Booting" /\ Observes(d, "Running")) =>
            (state'[d] = "Running" /\ NotifiedOnce(d, o))
       /\ (state[d] = "Running" /\ termReq[d] /\ pc[d] = "idle"
             /\ state'[d] # state[d]) =>
            (state'[d] = "Terminating" /\ NotifiedOnce(d, o))
       /\ (StepOf(d) /\ pc[d] = "terminate_await" /\ state[d] = "Terminating") =>
            (state'[d] = "Deleted" /\ NotifiedOnce(d, o))]_vars

\* ------------------------------------------------------------ determinism
\* The observation a tick of drone d feeds to its state: the terminate request,
\* or the outcome of the state's operation as it leaves the adapter's boundary.
C12_Observation(d) ==
  IF pc[d] = "idle" /\ termReq[d] /\ state[d] \in {"Running", "Stopped"}
  THEN [req |-> TRUE, exc |-> None, status |-> None]
  ELSE LET res == OpResult(d) IN
       [req |-> FALSE, exc |-> Leaves("Slurm", res.exc),
        status |-> IF res.exc = None THEN res.attrs.resource_status ELSE None]

\* The transition table of the lifecycle, on state s with n failed attempts on
\* record.
C12_NextState(s, n, ob) ==
  IF s \in TerminalStates THEN s
  ELSE IF ob.req THEN "Terminating"
  ELSE IF s = "Terminating" THEN "Deleted"
  ELSE IF ob.exc = Inconclusive THEN s
  ELSE IF ob.exc # None THEN (IF n + 1 >= RetryBudget THEN "Error" ELSE s)
  ELSE IF s = "Requested" THEN "Booting"
  ELSE IF s = "Booting" /\ ob.status \in {"Running", "Deleted", "Error"} THEN ob.status
  ELSE IF s = "Running" /\ ob.status \in {"Stopped", "Deleted"} THEN ob.status
  ELSE IF s = "Stopped" /\ ob.status = "Deleted" THEN ob.status
  ELSE s

C12_NextAttempts(s, n, ob) ==
  IF s \in TerminalStates THEN n
  ELSE IF ob.req \/ s = "Terminating" THEN 0
  ELSE IF ob.exc = Inconclusive THEN n
  ELSE IF ob.exc # None THEN n + 1
  ELSE 0

C13_Inv == cacheStale => hasSnapshot

\* On the step that completes a squeue run.
C13_Act ==
  outstanding' < outstanding =>
    /\ hasSnapshot =>
         /\ hasSnapshot'
         /\ \A d \in waiters : pc'[d] = "status_ready" /\ ret'[d].exc = None
    /\ cacheStale' => (cacheData' = cacheData /\ last_update' = last_update)
    /\ (hasSnapshot' /\ ~cacheStale') => last_update' = now
    /\ ~hasSnapshot' =>
         \A d \in waiters :
           /\ pc'[d] = "status_ready"
           /\ ret'[d].exc \in {"CommandExecutionFailure", "TimeoutError"}

\* A query answered from a batch flagged stale that lists the handle.
C13_Answer ==
  \A d \in Drones :
    (cacheStale /\ pc[d] = "status_ready" /\ ret[d].exc = None /\ ~Absent(d)
       /\ pc'[d] = "idle") =>
      /\ lastError'[d] = None
      /\ attrs'[d].resource_status = StateTranslator(cacheData[Key(d)])

C14_Inv ==
  \A d \in Drones :
    /\ pc[d] = "deploy_await" => state[d] = "Requested"
    /\ pc[d] \in {"status_await", "status_ready"} => Polling(d)
    /\ pc[d] = "terminate_await" => state[d] = "Terminating"

C14_Act ==
  \A d \in Drones :
    /\ (pc[d] = "idle" /\ pc'[d] # "idle") =>
         /\ state'[d] = state[d]
         /\ pc'[d] = "deploy_await" => state[d] = "Requested"
         /\ pc'[d] = "status_await" => Polling(d)
         /\ pc'[d] = "terminate_await" => state[d] = "Terminating"
    /\ (pc[d] # "idle" /\ pc'[d] # pc[d]) =>
         pc'[d] = (IF pc[d] = "status_await" THEN "status_ready" ELSE "idle")
    /\ (pc[d] # "idle" /\ pc'[d] = pc[d]) =>
         (ret'[d] = ret[d] /\ attrs'[d] = attrs[d] /\ state'[d] = state[d])
    /\ state'[d] # state[d] => pc'[d] = "idle"

\* C14: a tick of a drone starts only when its coroutine is idle, starts the
\* operation of the state the drone is in, does not change the state until the
\* operation has completed, and makes its one transition on the step that ends
\* it; nothing of the drone changes while the operation is in flight.
C14_SequentialTicks == []C14_Inv /\ [][C14_Act]_vars

\* A drone several ticks into its life, suspended in the operation of the state
\* its last tick committed.
C14_Witness ==
  \E d \in Drones : pc[d] = "terminate_await" /\ state[d] = "Terminating"

\* ------------------------------------------------------------- Terminating
C15_Inv == \A d \in Drones : state[d] = "Terminating" => attempts[d] = 0

C15_Act ==
  \A d \in Drones :
    /\ (state[d] = "Terminating" /\ pc[d] = "terminate_await" /\ pc'[d] = "idle") =>
         (state'[d] = "Deleted" /\ attempts'[d] = 0)
    /\ (state[d] = "Terminating" /\ state'[d] # state[d]) => state'[d] = "Deleted"

C16_InconclusiveIsTransient ==
  [][\A d \in Drones :
       (StepOf(d) /\ pc[d] \in {"deploy_await", "status_ready", "idle"}
          /\ OpResult(d).exc \in {"TardisResourceStatusUpdateFailed",
                                  "CommandExecutionFailure"}) =>
         /\ lastError'[d] = Inconclusive
         /\ state'[d] = state[d]
         /\ attempts'[d] = attempts[d]]_vars

\* A drone in Booting whose last status update was inconclusive, about to get the
\* inconclusive answer again.
C16_Witness ==
  \E d \in Drones :
    /\ state[d] = "Booting" /\ pc[d] = "status_ready" /\ ret[d].exc = None
    /\ lastError[d] = Inconclusive
    /\ OpResult(d).exc = "TardisResourceStatusUpdateFailed"

\* ------------------------------------------------------- no shared objects
\* C17: two drones hold no common state object (their observer lists are made
\* per drone by `observers or []`, their metrics are floats), and a state change
\* or an observer registration on one drone changes nothing of another.
C17_NoSharedState ==
  /\ \A d, e \in Drones : d # e => stateObj[d] # stateObj[e]
  /\ [][\A d, e \in Drones :
          (d # e /\ (state'[d] # state[d] \/ observers'[d] # observers[d])) =>
            /\ state'[e] = state[e]
            /\ stateObj'[e] = stateObj[e]
            /\ observers'[e] = observers[e]
            /\ notified'[e] = notified[e]]_vars

\* ------------------------------------------------------ status translation
\* The translation as the claim lists it.
C18_Table(x) ==
  IF x \in {"CANCELLED", "COMPLETED", "PREEMPTED"} THEN "Deleted"
  ELSE IF x \in {"COMPLETING", "RESIZING", "RUNNING", "SIGNALING", "STAGE_OUT"}
  THEN "Running"
  ELSE IF x \in {"CONFIGURING", "PENDING", "REQUEUE_FED", "REQUEUE_HOLD",
                 "REQUEUED", "SPECIAL_EXIT"}
  THEN "Booting"
  ELSE IF x \in {"RESV_DEL_HOLD", "STOPPED", "SUSPENDED"} THEN "Stopped"
  ELSE "Error"

\* C18: a status query on a job the batch lists does not raise and reports the
\* canonical status the table gives for the job's State string, Error for every
\* string the table does not name; the status is one of the canonical five.
C18_TranslationTotal ==
  [][\A d \in Drones :
       (call' # call /\ call'.op = "status" /\ call'.res = d
          /\ Key(d) \in DOMAIN cacheData) =>
         /\ call'.raised = None
         /\ attrs'[d].resource_status = C18_Table(cacheData[Key(d)])
         /\ attrs'[d].resource_status \in ResourceStatus]_vars

\* A job listed with a State string the table does not name was reported as
\* Error.
C18_Witness ==
  \E d \in Drones :
    /\ call.op = "status" /\ call.res = d /\ call.raised = None
    /\ Key(d) \in DOMAIN cacheData /\ cacheData[Key(d)] \notin KnownStates
    /\ attrs[d].resource_status = "Error"

\* --------------------------------------------- failed commands at the boundary
\* C19: whichever operation of the Slurm adapter a drone completes (deploy, a
\* status query that waited on a squeue run, terminate), a
\* CommandExecutionFailure raised inside the boundary reaches the drone as
\* TardisResourceStatusUpdateFailed, and so does a
\* TardisResourceStatusUpdateFailed raised inside it.
C19_CommandFailureIsInconclusive ==
  [][\A d \in Drones :
       (StepOf(d) /\ OpResult(d).exc \in {"CommandExecutionFailure",
                                         "TardisResourceStatusUpdateFailed"}) =>
         lastError'[d] = "TardisResourceStatusUpdateFailed"]_vars

\* One drone whose sbatch failed, another about to be told that squeue failed.
C19_Witness ==
  \E d, e \in Drones :
    /\ state[d] = "Requested" /\ pc[d] = "idle"
    /\ lastError[d] = "TardisResourceStatusUpdateFailed"
    /\ pc[e] = "status_ready" /\ ret[e].exc = "CommandExecutionFailure"

\* ------------------------------------- the boundary of the unknown-handle rule
\* C20: a status lookup of a handle absent from the batch reports
\* TardisResourceStatusUpdateFailed exactly when the batch's last update is
\* strictly earlier than the resource's creation, and then leaves the resource
\* attributes, the updated timestamp included, as they were; when the two times
\* are equal it returns status Deleted with the updated timestamp set.
C20_EqualTimesAreDeleted ==
  [][\A d \in Drones :
       (StepOf(d) /\ AtLookup(d) /\ Absent(d)) =>
         /\ attrs[d].created = last_update =>
              /\ lastError'[d] = None
              /\ attrs'[d].resource_status = "Deleted"
              /\ attrs'[d].updated = now
         /\ lastError'[d] = Inconclusive <=> last_update < attrs[d].created
         /\ last_update < attrs[d].created => attrs'[d] = attrs[d]]_vars

\* A drone about to look up its handle in a batch that does not list it and
\* was refreshed at the very time the resource was created.
C20_Witness ==
  \E d \in Drones :
    /\ Polling(d) /\ pc[d] = "status_ready" /\ ret[d].exc = None
    /\ Absent(d) /\ attrs[d].created = last_update
====
